---- MODULE Spec2Model ----
(***************************************************************************)
(* Model of tutorials/minimal/minimal.cc: the windowed "minimal" tutorial. *)
(* main() is followed position by position (pc); the ray tracing kernels   *)
(* and the windowing library are modelled at their API boundary.           *)
(*                                                                         *)
(* Floats are exact rationals <<num, den>> with den > 0; <<1,0>> is        *)
(* +infinity and <<0,0>> is NaN.                                           *)
(***************************************************************************)
EXTENDS Integers, Sequences, FiniteSets

VARIABLES
  pc,               \* position in main()
  device,           \* RTCDevice device            (main, line 189)
  errorFunctionSet, \* errorFunction is registered with a device (line 84)
  scene,            \* RTCScene scene              (main, line 190)
  mesh,             \* unsigned int mesh           (initializeScene, line 108)
  vertices,         \* the mesh's vertex buffer    (lines 110-120)
  triangles,        \* the mesh's index buffer     (lines 122-126)
  committed,        \* what rtcCommit made queryable (line 128)
  glfwOk,           \* glfwInit succeeded          (line 193)
  window,           \* GLFWwindow* window          (line 196)
  shouldClose,      \* the window's close flag, read by glfwWindowShouldClose
  width, height,    \* int width, height           (lines 201-203)
  pixels,           \* std::vector<uint8_t> pixels (line 207)
  frame,            \* int frame                   (line 208)
  c,                \* uint8_t c                   (line 213)
  x, y,             \* loop variables              (lines 214-215)
  hit,              \* value returned by the last CastRay
  ray,              \* RTCRay as handed to rtcIntersect (line 153)
  rayBack,          \* RTCRay after rtcIntersect returned
  raised,           \* errors the ray tracing service has raised
  printed,          \* lines printed about errors, and by whom
  calls,            \* number of calls made to each API function
  stamp,            \* for each byte of pixels, the frame that last wrote it
  oob,              \* a pixel write fell outside the buffer
  seen,             \* <<origin, direction, result>> of every CastRay so far
  closeAt,          \* value of frame when the close request was polled
  exitCode          \* <<v>> once main has returned v, <<>> before

vars == <<pc, device, errorFunctionSet, scene, mesh, vertices, triangles,
          committed, glfwOk, window, shouldClose, width, height, pixels,
          frame, c, x, y, hit, ray, rayBack, raised, printed, calls, stamp,
          oob, seen, closeAt, exitCode>>

(* ------------------------------ bounds -------------------------------- *)
MaxDim == 4       \* largest framebuffer width and height
MaxFrames == 130  \* frames rendered before the model stops starting new ones
GridDen == 2      \* probe origins are multiples of 1/GridDen
MaxProbes == 2    \* CastRay calls made by the probe harness

(* ----------------------------- constants ------------------------------ *)
NULL == "NULL"
DEVICE == "device"
SCENE == "scene"
WINDOW == "window"
NoScene == [verts |-> <<>>, tris |-> <<>>, geomID |-> -1]
\* main has not returned
NoExit == <<>>

\* ((unsigned)-1), kept as the int of the same bits
RTC_INVALID_GEOMETRY_ID == -1

F(n) == <<n, 1>>
Infinity == <<1, 0>>
NaN == <<0, 0>>

Functions == {"rtcNewDevice", "rtcDeviceNewScene", "rtcNewTriangleMesh",
              "rtcMapBuffer", "rtcUnmapBuffer", "rtcCommit", "rtcIntersect",
              "rtcDeleteScene", "rtcDeleteDevice", "glfwInit",
              "glfwCreateWindow", "glfwWindowShouldClose", "glfwPollEvents",
              "glDrawPixels", "glfwSwapBuffers", "glfwDestroyWindow",
              "glfwTerminate"}

Called(f) == [calls EXCEPT ![f] = @ + 1]

(* errorFunction prints "error <code>: <message>"; the service calls it    *)
(* only when it has been registered with a device.                         *)
errorFunction(e) ==
  IF errorFunctionSet
    THEN printed \cup {[by |-> "errorFunction", about |-> e]}
    ELSE printed

(* ------------------------- pure helpers -------------------------------- *)

\* a % b of C++ on ints: the quotient truncates toward zero
CRem(a, b) == IF a >= 0 THEN a % b ELSE -((-a) % b)

\* static_cast<uint8_t>(v), and the store of an int into a uint8_t
ToUint8(v) == v % 256

\* ++frame on a 32-bit int
IncInt32(n) == IF n = 2147483647 THEN -2147483647 - 1 ELSE n + 1

\* static_cast<uint8_t>(n % 128) + 128, stored in uint8_t c
Intensity_m(n) == ToUint8(ToUint8(CRem(n, 256)) + 128)
Intensity(n) == ToUint8(ToUint8(CRem(n, 128)) + 128)

\* -0.1f + 1.2f * i / (n - 1)
PixelCoord(i, n) ==
  IF n - 1 # 0 THEN <<12 * i - (n - 1), 10 * (n - 1)>>
  ELSE IF i = 0 THEN NaN ELSE Infinity

\* 4 * (y * width + x)
PixelIndex_m(px, py, w, h) == 4 * (py * h + px)
PixelIndex(px, py, w, h) == 4 * (py * w + px)

\* the RTCRay that CastRay fills in before it calls rtcIntersect
MakeRay_near(o, d) ==
  [org |-> o, dir |-> d, tnear |-> F(1), tfar |-> Infinity,
   instID |-> RTC_INVALID_GEOMETRY_ID, geomID |-> RTC_INVALID_GEOMETRY_ID,
   primID |-> RTC_INVALID_GEOMETRY_ID]
MakeRay_stale(o, d) ==
  [org |-> o, dir |-> d, tnear |-> F(0), tfar |-> Infinity,
   instID |-> rayBack.instID, geomID |-> rayBack.geomID,
   primID |-> rayBack.primID]
MakeRay(o, d) ==
  [org |-> o, dir |-> d, tnear |-> F(0), tfar |-> Infinity,
   instID |-> RTC_INVALID_GEOMETRY_ID, geomID |-> RTC_INVALID_GEOMETRY_ID,
   primID |-> RTC_INVALID_GEOMETRY_ID]

(* --------------- the ray tracing kernels, from their contract ---------- *)

IsFinite(f) == f[2] > 0

\* sign-preserving multiple of the edge function of edge a->b at point p
Edge(a, b, p) ==
  (b[1] - a[1]) * (p[2][1] * p[1][2] - a[2] * p[1][2] * p[2][2])
  - (b[2] - a[2]) * (p[1][1] * p[2][2] - a[1] * p[1][2] * p[2][2])

\* numerator of the distance t along a ray of direction (0,0,dz), dz = +-1,
\* to the plane z = zc; its denominator is that of the origin's z
Distance(zc, oz, dz) == (zc * oz[2] - oz[1]) * dz

\* rtcIntersect(scene, ray): the ray as the call leaves it.  Directions are
\* parallel to the z axis; the triangle lies in a plane of constant z.
rtcIntersect(sc, r) ==
  IF sc = NoScene \/ Len(sc.tris) = 0 \/ Len(sc.verts) < 3 THEN r
  ELSE
    LET t  == sc.tris[1]
        a  == sc.verts[t[1] + 1]
        b  == sc.verts[t[2] + 1]
        cc == sc.verts[t[3] + 1]
        o  == r.org
        dz == r.dir[3][1]
        e1 == Edge(a, b, o)
        e2 == Edge(b, cc, o)
        e3 == Edge(cc, a, o)
        tn == Distance(a[3], o[3], dz)
        inside == \/ (e1 >= 0 /\ e2 >= 0 /\ e3 >= 0)
                  \/ (e1 <= 0 /\ e2 <= 0 /\ e3 <= 0)
        flat == (b[1] - a[1]) * (cc[2] - a[2]) = (b[2] - a[2]) * (cc[1] - a[1])
        inRange == /\ tn * r.tnear[2] >= r.tnear[1] * o[3][2]
                   /\ \/ r.tfar = Infinity
                      \/ tn * r.tfar[2] <= r.tfar[1] * o[3][2]
    IN IF /\ IsFinite(o[1]) /\ IsFinite(o[2]) /\ IsFinite(o[3])
          /\ r.dir[1] = F(0) /\ r.dir[2] = F(0) /\ dz \in {-1, 1}
          /\ ~flat /\ inside /\ inRange
       THEN [r EXCEPT !.geomID = sc.geomID, !.primID = 0,
                      !.tfar = <<tn, o[3][2]>>]
       ELSE r

\* no RTCRay exists before the first CastRay
NoRay ==
  [org |-> <<F(0), F(0), F(0)>>, dir |-> <<F(0), F(0), F(0)>>,
   tnear |-> F(0), tfar |-> F(0), instID |-> RTC_INVALID_GEOMETRY_ID,
   geomID |-> RTC_INVALID_GEOMETRY_ID, primID |-> RTC_INVALID_GEOMETRY_ID]

(* ------------------------------ Init ----------------------------------- *)
Init ==
  /\ pc = "initializeDevice"
  /\ device = NULL /\ errorFunctionSet = FALSE
  /\ scene = NULL /\ mesh = RTC_INVALID_GEOMETRY_ID
  /\ vertices = <<>> /\ triangles = <<>> /\ committed = NoScene
  /\ glfwOk = FALSE /\ window = NULL /\ shouldClose = FALSE
  /\ width = 0 /\ height = 0 /\ pixels = <<>>
  /\ frame = 0 /\ c = 0 /\ x = 0 /\ y = 0
  /\ hit = FALSE
  /\ ray = NoRay /\ rayBack = NoRay
  /\ raised = {} /\ printed = {}
  /\ calls = [f \in Functions |-> 0]
  /\ stamp = <<>> /\ oob = FALSE /\ seen = {} /\ closeAt = -1
  /\ exitCode = NoExit

(* --------------------------- variable groups --------------------------- *)
rtcVars == <<device, errorFunctionSet, scene, mesh, vertices, triangles,
             committed>>
glfwVars == <<glfwOk, window, shouldClose, width, height>>
loopVars == <<pixels, frame, c, x, y, stamp, oob, closeAt>>
rayVars == <<hit, ray, rayBack, seen>>
errVars == <<raised, printed>>

(* --------------------------- initializeDevice -------------------------- *)
\* lines 78-86: rtcNewDevice may fail; the failure is printed here, then the
\* error function is registered with whatever device came back
InitializeDevice ==
  /\ pc = "initializeDevice"
  /\ \E d \in {NULL, DEVICE} :
       /\ device' = d
       /\ raised' = IF d = NULL THEN raised \cup {"rtcNewDevice"} ELSE raised
       /\ printed' = IF d = NULL
                       THEN printed \cup {[by |-> "printf",
                                           about |-> "rtcNewDevice"]}
                       ELSE printed
       /\ errorFunctionSet' = (d # NULL)
  /\ calls' = Called("rtcNewDevice")
  /\ pc' = "newScene"
  /\ UNCHANGED <<scene, mesh, vertices, triangles, committed, glfwVars,
                 loopVars, rayVars, exitCode>>

(* --------------------------- initializeScene --------------------------- *)
\* line 96: no scene without a device; with one, creation may still fail
NewScene ==
  /\ pc = "newScene"
  /\ \E s \in (IF device = NULL THEN {NULL} ELSE {NULL, SCENE}) :
       /\ scene' = s
       /\ raised' = IF s = NULL THEN raised \cup {"rtcDeviceNewScene"}
                                ELSE raised
       /\ printed' = IF s = NULL THEN errorFunction("rtcDeviceNewScene")
                                 ELSE printed
  /\ calls' = Called("rtcDeviceNewScene")
  /\ pc' = "newTriangleMesh"
  /\ UNCHANGED <<device, errorFunctionSet, mesh, vertices, triangles,
                 committed, glfwVars, loopVars, rayVars, exitCode>>

\* line 108: the first geometry of a scene gets id 0
NewTriangleMesh ==
  /\ pc = "newTriangleMesh"
  /\ mesh' = IF scene = NULL THEN RTC_INVALID_GEOMETRY_ID ELSE 0
  /\ raised' = IF scene = NULL THEN raised \cup {"rtcNewTriangleMesh"}
                               ELSE raised
  /\ printed' = IF scene = NULL THEN errorFunction("rtcNewTriangleMesh")
                                ELSE printed
  /\ calls' = Called("rtcNewTriangleMesh")
  /\ pc' = "writeVertices"
  /\ UNCHANGED <<device, errorFunctionSet, scene, vertices, triangles,
                 committed, glfwVars, loopVars, rayVars, exitCode>>

\* lines 111-119
TriangleVertices_m == << <<0, 0, 0>>, <<1, 0, 0>>, <<1, 1, 0>> >>
TriangleVertices == << <<0, 0, 0>>, <<1, 0, 0>>, <<0, 1, 0>> >>

\* lines 123-125
TriangleIndices == << <<0, 1, 2>> >>

\* lines 110-120: without a scene rtcMapBuffer has no buffer to return and
\* the stores go through a null pointer, which is undefined: the process
\* dies or goes on
WriteVertices ==
  /\ pc = "writeVertices"
  /\ vertices' = IF scene = NULL THEN vertices ELSE TriangleVertices
  /\ raised' = IF scene = NULL THEN raised \cup {"rtcMapBuffer"} ELSE raised
  /\ printed' = IF scene = NULL THEN errorFunction("rtcMapBuffer")
                                ELSE printed
  /\ calls' = [calls EXCEPT !["rtcMapBuffer"] = @ + 1,
                            !["rtcUnmapBuffer"] = @ + 1]
  /\ \E next \in (IF scene = NULL THEN {"crashed", "writeIndices"}
                                  ELSE {"writeIndices"}) : pc' = next
  /\ UNCHANGED <<device, errorFunctionSet, scene, mesh, triangles, committed,
                 glfwVars, loopVars, rayVars, exitCode>>

\* lines 122-126
WriteIndices ==
  /\ pc = "writeIndices"
  /\ triangles' = IF scene = NULL THEN triangles ELSE TriangleIndices
  /\ raised' = IF scene = NULL THEN raised \cup {"rtcMapBuffer"} ELSE raised
  /\ printed' = IF scene = NULL THEN errorFunction("rtcMapBuffer")
                                ELSE printed
  /\ calls' = [calls EXCEPT !["rtcMapBuffer"] = @ + 1,
                            !["rtcUnmapBuffer"] = @ + 1]
  /\ \E next \in (IF scene = NULL THEN {"crashed", "commit"}
                                  ELSE {"commit"}) : pc' = next
  /\ UNCHANGED <<device, errorFunctionSet, scene, mesh, vertices, committed,
                 glfwVars, loopVars, rayVars, exitCode>>

\* line 128: the scene becomes queryable with the buffers as they are now
Commit ==
  /\ pc = "commit"
  /\ committed' = IF scene = NULL THEN NoScene
                  ELSE [verts |-> vertices, tris |-> triangles,
                        geomID |-> mesh]
  /\ raised' = IF scene = NULL THEN raised \cup {"rtcCommit"} ELSE raised
  /\ printed' = IF scene = NULL THEN errorFunction("rtcCommit") ELSE printed
  /\ calls' = Called("rtcCommit")
  /\ pc' = "glfwInit"
  /\ UNCHANGED <<device, errorFunctionSet, scene, mesh, vertices, triangles,
                 glfwVars, loopVars, rayVars, exitCode>>

(* ----------------------------- window setup --------------------------- *)
\* lines 192-195: glfwInit may fail, which GlfwErrorFunc reports
GlfwInit ==
  /\ pc = "glfwInit"
  /\ \E ok \in BOOLEAN :
       /\ glfwOk' = ok
       /\ printed' = IF ok THEN printed
                     ELSE printed \cup {[by |-> "GlfwErrorFunc",
                                         about |-> "glfwInit"]}
  /\ calls' = Called("glfwInit")
  /\ pc' = "createWindow"
  /\ UNCHANGED <<rtcVars, window, shouldClose, width, height, loopVars,
                 rayVars, raised, exitCode>>

\* lines 196-199: no window without the library; with it, creation may fail
CreateWindow ==
  /\ pc = "createWindow"
  /\ \E w \in (IF glfwOk THEN {NULL, WINDOW} ELSE {NULL}) :
       /\ window' = w
       /\ printed' = IF w # NULL THEN printed
                     ELSE printed \cup {[by |-> "GlfwErrorFunc",
                                         about |-> "glfwCreateWindow"]}
  /\ calls' = Called("glfwCreateWindow")
  /\ pc' = "getFramebufferSize"
  /\ UNCHANGED <<rtcVars, glfwOk, shouldClose, width, height, loopVars,
                 rayVars, raised, exitCode>>

\* lines 201-208: the size stays 0 x 0 without a window; the vector is
\* value-initialized; frame = 0
GetFramebufferSize ==
  /\ pc = "getFramebufferSize"
  /\ \E w, h \in 0 .. MaxDim :
       /\ IF window = NULL THEN w = 0 /\ h = 0 ELSE w >= 1 /\ h >= 1
       /\ width' = w
       /\ height' = h
       /\ pixels' = [i \in 0 .. (w * h * 4 - 1) |-> 0]
       /\ stamp' = [i \in 0 .. (w * h * 4 - 1) |-> 0]
  /\ frame' = 0
  /\ pc' = "loopTest"
  /\ UNCHANGED <<rtcVars, glfwOk, window, shouldClose, c, x, y, oob, closeAt,
                 rayVars, errVars, calls, exitCode>>

(* ------------------------------ render loop ---------------------------- *)
\* line 210: glfwWindowShouldClose reads the window's flag; without a window
\* there is no flag and the value is whatever the library answers
LoopTest_late ==
  /\ pc = "loopTest"
  /\ \E close \in (IF window = NULL THEN BOOLEAN ELSE {shouldClose}) :
       IF close /\ frame >= closeAt + 2
         THEN pc' = "deleteScene"
         ELSE frame < MaxFrames /\ pc' = "pollEvents"
  /\ calls' = Called("glfwWindowShouldClose")
  /\ UNCHANGED <<rtcVars, glfwVars, loopVars, rayVars, errVars, exitCode>>
LoopTest ==
  /\ pc = "loopTest"
  /\ \E close \in (IF window = NULL THEN BOOLEAN ELSE {shouldClose}) :
       IF close
         THEN pc' = "deleteScene"
         ELSE frame < MaxFrames /\ pc' = "pollEvents"
  /\ calls' = Called("glfwWindowShouldClose")
  /\ UNCHANGED <<rtcVars, glfwVars, loopVars, rayVars, errVars, exitCode>>

\* line 211: the user may have asked to close the window
PollEvents ==
  /\ pc = "pollEvents"
  /\ \E close \in (IF window = NULL THEN {FALSE} ELSE BOOLEAN) :
       /\ shouldClose' = (shouldClose \/ close)
       /\ closeAt' = IF close /\ ~shouldClose THEN frame ELSE closeAt
  /\ calls' = Called("glfwPollEvents")
  /\ pc' = "beginFrame"
  /\ UNCHANGED <<rtcVars, glfwOk, window, width, height, pixels, frame, c, x,
                 y, stamp, oob, rayVars, errVars, exitCode>>

\* line 213, and the loop heads of lines 214-215 for the first pixel
BeginFrame ==
  /\ pc = "beginFrame"
  /\ frame' = IncInt32(frame)
  /\ c' = Intensity(frame')
  /\ x' = 0 /\ y' = 0
  /\ pc' = IF 0 < height /\ 0 < width THEN "castRay" ELSE "drawPixels"
  /\ UNCHANGED <<rtcVars, glfwVars, pixels, stamp, oob, closeAt, rayVars,
                 errVars, calls, exitCode>>

\* lines 137-155: CastRay(scene, o, d)
CastRayCall_dirty(o, d) ==
  LET r == MakeRay(o, d)
      back == rtcIntersect(committed, r)
      result == (back.geomID # RTC_INVALID_GEOMETRY_ID)
  IN /\ ray' = r
     /\ rayBack' = back
     /\ hit' = result
     /\ seen' = seen \cup {<<o, d, result>>}
     /\ raised' = IF scene = NULL THEN raised \cup {"rtcIntersect"}
                                  ELSE raised
     /\ printed' = IF scene = NULL THEN errorFunction("rtcIntersect")
                                   ELSE printed
     /\ calls' = [calls EXCEPT !["rtcIntersect"] = @ + 1,
                               !["rtcCommit"] = @ + 1]
CastRayCall(o, d) ==
  LET r == MakeRay(o, d)
      back == rtcIntersect(committed, r)
      result == (back.geomID # RTC_INVALID_GEOMETRY_ID)
  IN /\ ray' = r
     /\ rayBack' = back
     /\ hit' = result
     /\ seen' = seen \cup {<<o, d, result>>}
     /\ raised' = IF scene = NULL THEN raised \cup {"rtcIntersect"}
                                  ELSE raised
     /\ printed' = IF scene = NULL THEN errorFunction("rtcIntersect")
                                   ELSE printed
     /\ calls' = Called("rtcIntersect")

\* lines 216-217: the ray of pixel (x, y)
PixelOrigin(px, py) ==
  <<PixelCoord(px, width), PixelCoord(py, height), F(-1)>>
PixelDirection == <<F(0), F(0), F(1)>>

CastRay ==
  /\ pc = "castRay"
  /\ CastRayCall(PixelOrigin(x, y), PixelDirection)
  /\ pc' = "writePixel"
  /\ UNCHANGED <<rtcVars, glfwVars, loopVars, exitCode>>

\* lines 218-224, then ++x / ++y and the loop tests
WritePixel ==
  /\ pc = "writePixel"
  /\ LET i == PixelIndex(x, y, width, height)
         value(k) == IF k = i THEN (IF hit THEN c ELSE 0)
                     ELSE IF k = i + 3 THEN 255 ELSE 0
     IN /\ pixels' = [k \in DOMAIN pixels |->
                        IF k \in i .. i + 3 THEN value(k) ELSE pixels[k]]
        /\ stamp' = [k \in DOMAIN stamp |->
                        IF k \in i .. i + 3 THEN frame ELSE stamp[k]]
        /\ oob' = (oob \/ ~((i .. i + 3) \subseteq DOMAIN pixels))
  /\ IF x + 1 < width
       THEN x' = x + 1 /\ y' = y /\ pc' = "castRay"
       ELSE IF y + 1 < height
         THEN x' = 0 /\ y' = y + 1 /\ pc' = "castRay"
         ELSE x' = x + 1 /\ y' = y + 1 /\ pc' = "drawPixels"
  /\ UNCHANGED <<rtcVars, glfwVars, frame, c, closeAt, rayVars, errVars,
                 calls, exitCode>>

\* line 228
DrawPixels ==
  /\ pc = "drawPixels"
  /\ calls' = Called("glDrawPixels")
  /\ pc' = "swapBuffers"
  /\ UNCHANGED <<rtcVars, glfwVars, loopVars, rayVars, errVars, exitCode>>

\* line 230
SwapBuffers_release ==
  /\ pc = "swapBuffers"
  /\ calls' = [calls EXCEPT !["glfwSwapBuffers"] = @ + 1,
                            !["rtcDeleteScene"] = @ + 1]
  /\ pc' = "loopTest"
  /\ UNCHANGED <<rtcVars, glfwVars, loopVars, rayVars, errVars, exitCode>>
SwapBuffers ==
  /\ pc = "swapBuffers"
  /\ calls' = Called("glfwSwapBuffers")
  /\ pc' = "loopTest"
  /\ UNCHANGED <<rtcVars, glfwVars, loopVars, rayVars, errVars, exitCode>>

(* -------------------------------- shutdown ----------------------------- *)
\* line 235
DeleteScene_skip ==
  /\ pc = "deleteScene"
  /\ pc' = "deleteDevice"
  /\ UNCHANGED <<rtcVars, glfwVars, loopVars, rayVars, errVars, calls,
                 exitCode>>
DeleteScene ==
  /\ pc = "deleteScene"
  /\ calls' = Called("rtcDeleteScene")
  /\ pc' = "deleteDevice"
  /\ UNCHANGED <<rtcVars, glfwVars, loopVars, rayVars, errVars, exitCode>>

\* line 236
DeleteDevice ==
  /\ pc = "deleteDevice"
  /\ calls' = Called("rtcDeleteDevice")
  /\ pc' = "destroyWindow"
  /\ UNCHANGED <<rtcVars, glfwVars, loopVars, rayVars, errVars, exitCode>>

\* line 238
DestroyWindow ==
  /\ pc = "destroyWindow"
  /\ calls' = Called("glfwDestroyWindow")
  /\ pc' = "terminate"
  /\ UNCHANGED <<rtcVars, glfwVars, loopVars, rayVars, errVars, exitCode>>

\* lines 239-241
Terminate ==
  /\ pc = "terminate"
  /\ calls' = Called("glfwTerminate")
  /\ exitCode' = <<0>>
  /\ pc' = "done"
  /\ UNCHANGED <<rtcVars, glfwVars, loopVars, rayVars, errVars>>

(* ------------------------------ probe harness -------------------------- *)
\* CastRay (lines 137-155) called on the built scene with arguments of the
\* caller's choice, as the console variant of the tutorial does
ProbeCoords == {<<n, GridDen>> : n \in -1 .. GridDen + 1}
ProbeOrigins == {<<a, b, F(-1)>> : a \in ProbeCoords, b \in ProbeCoords}
ProbeDirections == {<<F(0), F(0), F(1)>>, <<F(0), F(0), F(-1)>>}

Probe ==
  /\ pc = "glfwInit"
  /\ calls["rtcIntersect"] < MaxProbes
  /\ \E o \in ProbeOrigins, d \in ProbeDirections : CastRayCall(o, d)
  /\ UNCHANGED <<pc, rtcVars, glfwVars, loopVars, exitCode>>

(* ---------------------------- specifications --------------------------- *)
Next ==
  \/ InitializeDevice
  \/ NewScene
  \/ NewTriangleMesh
  \/ WriteVertices
  \/ WriteIndices
  \/ Commit
  \/ GlfwInit
  \/ CreateWindow
  \/ GetFramebufferSize
  \/ LoopTest
  \/ PollEvents
  \/ BeginFrame
  \/ CastRay
  \/ WritePixel
  \/ DrawPixels
  \/ SwapBuffers
  \/ DeleteScene
  \/ DeleteDevice
  \/ DestroyWindow
  \/ Terminate

Spec == Init /\ [][Next]_vars

\* every call main makes returns, so a step that can be taken is taken
LiveSpec == Init /\ [][Next]_vars /\ WF_vars(Next)

\* initializeScene followed by CastRay calls with chosen arguments
RayNext ==
  \/ InitializeDevice
  \/ NewScene
  \/ NewTriangleMesh
  \/ WriteVertices
  \/ WriteIndices
  \/ Commit
  \/ Probe

RaySpec == Init /\ [][RayNext]_vars

(* ============================== claims ================================= *)
N(f) == calls[f]

InLoop == pc \in {"loopTest", "pollEvents", "beginFrame", "castRay",
                  "writePixel", "drawPixels", "swapBuffers"}
InFrameBody == pc \in {"castRay", "writePixel", "drawPixels", "swapBuffers"}
Releases == {"rtcDeleteScene", "rtcDeleteDevice", "glfwDestroyWindow",
             "glfwTerminate"}
Acquisitions == {"rtcNewDevice", "rtcDeviceNewScene", "glfwInit",
                 "glfwCreateWindow"}

\* C1: when main has returned, the scene, the device, the window and the
\* windowing library, each acquired by one call at startup, have each been
\* released by exactly one call; no release is ever made twice, and none is
\* made while the render loop, which queries and presents, is still running.
C1_ReleasedExactlyOnce ==
  /\ \A f \in Releases : N(f) <= 1
  /\ \A f \in Acquisitions : N(f) <= 1
  /\ pc = "done" => \A f \in Releases \cup Acquisitions : N(f) = 1
  /\ InLoop => \A f \in Releases : N(f) = 0
  /\ (\E f \in Releases : N(f) > 0) =>
        /\ N("rtcIntersect") = frame * width * height
        /\ N("glDrawPixels") = frame

C1_Witness ==
  /\ pc = "done"
  /\ device # NULL /\ scene # NULL /\ window # NULL
  /\ N("rtcIntersect") > 0 /\ N("glDrawPixels") > 1
  /\ \A f \in Releases : N(f) = 1

\* C2: when a frame is presented (glDrawPixels is about to run), every
\* pixel (px, py) of the W x H buffer was written during this frame: red is
\* the frame's intensity byte if CastRay reported a hit for the pixel's ray
\* and 0 otherwise, green and blue are 0, alpha is 255; no byte dates from
\* an earlier frame and no write has fallen outside [0, 4*W*H).
C2_FrameFullyRewritten ==
  /\ ~oob
  /\ DOMAIN pixels = 0 .. (4 * width * height - 1)
  /\ pc = "drawPixels" =>
       /\ \A k \in DOMAIN stamp : stamp[k] = frame
       /\ \A px \in 0 .. width - 1 : \A py \in 0 .. height - 1 :
            LET i == 4 * (py * width + px)
                o == <<PixelCoord(px, width), PixelCoord(py, height), F(-1)>>
                d == <<F(0), F(0), F(1)>>
            IN /\ <<o, d, TRUE>> \in seen => pixels[i] = c
               /\ <<o, d, FALSE>> \in seen => pixels[i] = 0
               /\ <<o, d, TRUE>> \in seen \/ <<o, d, FALSE>> \in seen
               /\ pixels[i + 1] = 0
               /\ pixels[i + 2] = 0
               /\ pixels[i + 3] = 255

C2_Witness ==
  /\ pc = "drawPixels"
  /\ frame = 2
  /\ width = 4 /\ height = 3
  /\ \E k \in DOMAIN pixels : k % 4 = 0 /\ pixels[k] = c
  /\ \E k \in DOMAIN pixels : k % 4 = 0 /\ pixels[k] = 0

\* C3: frame starts at 0 and goes up by one per loop iteration, before the
\* intensity byte is computed; in frame n >= 1 the byte is 128 + (n mod 128),
\* which lies in [128, 255], and it is the red byte of every hit pixel.
C3_IntensityCycle ==
  /\ frame >= 0
  /\ pc \in {"loopTest", "pollEvents", "beginFrame"} =>
       frame = N("glfwSwapBuffers")
  /\ InFrameBody =>
       /\ frame >= 1
       /\ frame = N("glfwPollEvents")
       /\ c = 128 + (frame % 128)
       /\ c \in 128 .. 255
  /\ pc = "drawPixels" =>
       \A k \in DOMAIN pixels :
         (k % 4 = 0 /\ pixels[k] # 0) => pixels[k] = 128 + (frame % 128)

C3_Witness ==
  /\ pc = "drawPixels"
  /\ frame = 129
  /\ c = 129
  /\ \E k \in DOMAIN pixels : k % 4 = 0 /\ pixels[k] = 129

\* C4 (states): the device is created before the scene is built, the scene
\* is committed before the windowing library is started, the window is
\* created before the loop; within the loop each iteration polls, renders
\* every pixel and then presents; the releases come after the loop, scene
\* first, then device, then window, then the library, and main returns 0.
C4_Order ==
  /\ N("rtcDeviceNewScene") > 0 => N("rtcNewDevice") = 1
  /\ N("glfwInit") > 0 => N("rtcCommit") = 1
  /\ N("glfwCreateWindow") > 0 => N("glfwInit") = 1
  /\ N("glfwWindowShouldClose") > 0 => N("glfwCreateWindow") = 1
  /\ N("glfwPollEvents") <= N("glfwWindowShouldClose")
  /\ N("glDrawPixels") <= N("glfwPollEvents")
  /\ N("glfwPollEvents") <= N("glDrawPixels") + 1
  /\ N("rtcIntersect") <= N("glfwPollEvents") * width * height
  /\ N("glDrawPixels") * width * height <= N("rtcIntersect")
  /\ N("rtcDeleteDevice") <= N("rtcDeleteScene")
  /\ N("glfwDestroyWindow") <= N("rtcDeleteDevice")
  /\ N("glfwTerminate") <= N("glfwDestroyWindow")
  /\ N("rtcDeleteScene") > 0 => ~InLoop
  /\ exitCode # NoExit => (exitCode = <<0>> /\ N("glfwTerminate") = 1)
  /\ pc = "done" => exitCode = <<0>>

\* C4 (steps): a ray query is made only after the commit and before the
\* scene is released; a poll, a present or a swap only while the window
\* has not been destroyed; a present only when every pixel of the frame
\* has been rendered after the frame's poll.
C4_Step ==
  /\ N("rtcIntersect")' > N("rtcIntersect") =>
       N("rtcCommit") = 1 /\ N("rtcDeleteScene") = 0
  /\ N("glDrawPixels")' > N("glDrawPixels") =>
       /\ N("glfwDestroyWindow") = 0 /\ N("rtcDeleteScene") = 0
       /\ N("glfwPollEvents") = N("glDrawPixels") + 1
       /\ N("rtcIntersect") = N("glfwPollEvents") * width * height
  /\ N("glfwPollEvents")' > N("glfwPollEvents") =>
       N("glfwDestroyWindow") = 0 /\ N("glfwCreateWindow") = 1

\* C4: every execution performs its steps in the order device
\* initialization, scene build and commit, window setup, iterations of
\* poll / render all pixels / present, then the releases and exit code 0.
C4_DriverOrder == [](C4_Order) /\ [][C4_Step]_vars

C4_Witness ==
  /\ pc = "done" /\ exitCode = <<0>>
  /\ N("glDrawPixels") = 2
  /\ N("rtcIntersect") = 2 * width * height
  /\ width > 1 /\ scene # NULL

\* the triangle the tutorial builds
BuiltScene ==
  [verts |-> << <<0, 0, 0>>, <<1, 0, 0>>, <<0, 1, 0>> >>,
   tris |-> << <<0, 1, 2>> >>, geomID |-> 0]

\* C5: the scene is built and committed once, before any ray query: one
\* triangle mesh, vertices (0,0,0), (1,0,0), (0,1,0), index triple (0,1,2),
\* one commit; after it the committed data stay as they are, and no buffer
\* is mapped or committed again however many frames are rendered.
C5_SceneBuiltOnce ==
  /\ N("rtcCommit") <= 1
  /\ N("rtcNewTriangleMesh") <= 1
  /\ N("rtcMapBuffer") <= 2
  /\ N("rtcIntersect") > 0 => N("rtcCommit") = 1
  /\ N("rtcCommit") = 1 =>
       /\ N("rtcNewTriangleMesh") = 1
       /\ N("rtcMapBuffer") = 2 /\ N("rtcUnmapBuffer") = 2
       /\ scene # NULL =>
            /\ committed = BuiltScene
            /\ vertices = BuiltScene.verts
            /\ triangles = BuiltScene.tris
       /\ scene = NULL => committed = NoScene

C5_Witness ==
  /\ pc = "swapBuffers" /\ frame = 3
  /\ committed = BuiltScene
  /\ N("rtcIntersect") = 3 * width * height /\ width = 2

\* C6: the ray CastRay hands to the intersection service has near bound 0,
\* far bound +infinity and geometry, primitive and instance ids all equal
\* to the invalid id, whatever the previous query left behind; CastRay
\* returns true exactly when the geometry id after the query is not the
\* invalid id.
C6_RayRecord ==
  N("rtcIntersect") > 0 =>
    /\ ray.tnear = F(0)
    /\ ray.tfar = Infinity
    /\ ray.geomID = RTC_INVALID_GEOMETRY_ID
    /\ ray.primID = RTC_INVALID_GEOMETRY_ID
    /\ ray.instID = RTC_INVALID_GEOMETRY_ID
    /\ hit = (rayBack.geomID # RTC_INVALID_GEOMETRY_ID)
    /\ \E o \in ProbeOrigins, d \in ProbeDirections :
         /\ ray.org = o /\ ray.dir = d
         /\ <<o, d, hit>> \in seen

C6_Witness ==
  /\ N("rtcIntersect") = 2
  /\ hit = FALSE /\ rayBack.geomID = RTC_INVALID_GEOMETRY_ID
  /\ \E e \in seen : e[3] = TRUE

\* value comparisons of the rationals <<num, den>>, den > 0
NonNegative(q) == q[1] >= 0
SumAtMostOne(q, r) == q[1] * r[2] + r[1] * q[2] <= q[2] * r[2]
IsValue(q, n) == q[1] = n * q[2]

\* C7: against the committed triangle (0,0,0), (1,0,0), (0,1,0), CastRay
\* from (0,0,-1) along (0,0,1) reports a hit and from (1,1,-1) along
\* (0,0,1) reports none; in general a ray along (0,0,1) from (px,py,-1)
\* hits exactly when px >= 0, py >= 0 and px + py <= 1.
C7_TriangleFootprint ==
  committed # NoScene =>
    \A e \in seen :
      (e[2] = <<F(0), F(0), F(1)>> /\ e[1][3] = F(-1)) =>
        /\ e[3] = (/\ NonNegative(e[1][1]) /\ NonNegative(e[1][2])
                   /\ SumAtMostOne(e[1][1], e[1][2]))
        /\ (IsValue(e[1][1], 0) /\ IsValue(e[1][2], 0)) => e[3] = TRUE
        /\ (IsValue(e[1][1], 1) /\ IsValue(e[1][2], 1)) => e[3] = FALSE

C7_Witness ==
  /\ committed = BuiltScene
  /\ \E e \in seen :
       /\ e[2] = <<F(0), F(0), F(1)>>
       /\ IsValue(e[1][1], 0) /\ IsValue(e[1][2], 0) /\ e[3] = TRUE
  /\ \E e \in seen :
       /\ e[2] = <<F(0), F(0), F(1)>>
       /\ IsValue(e[1][1], 1) /\ IsValue(e[1][2], 1) /\ e[3] = FALSE

\* C8 (states): no two CastRay calls with the same origin and direction
\* have returned different results.
C8_Deterministic ==
  \A e1 \in seen : \A e2 \in seen :
    (e1[1] = e2[1] /\ e1[2] = e2[2]) => e1[3] = e2[3]

\* C8 (steps): a CastRay call changes neither the scene nor the frame
\* counter nor the pixel buffer.
C8_ReadOnlyStep ==
  N("rtcIntersect")' > N("rtcIntersect") =>
    UNCHANGED <<scene, mesh, vertices, triangles, committed, frame, c,
                pixels, stamp>>

\* C8: CastRay is read-only and deterministic: a call leaves the scene, the
\* frame counter and the pixel buffer as they are, and calls with the same
\* origin and direction return the same result at any two points after the
\* commit.
C8_ReadOnlyDeterministic == [](C8_Deterministic) /\ [][C8_ReadOnlyStep]_vars

C8_Witness ==
  /\ pc = "writePixel" /\ frame = 3 /\ hit
  /\ N("rtcIntersect") > 2 * width * height
  /\ <<PixelOrigin(x, y), PixelDirection, TRUE>> \in seen

\* C9: every error of the ray tracing service, device creation failure and
\* scene build failure included, is printed by the registered error
\* function, and the program does not die on it: it goes on through scene
\* build, window setup and the render loop with the null handle.
C9_ReportedByCallbackAndContinues ==
  /\ \A e \in raised : [by |-> "errorFunction", about |-> e] \in printed
  /\ pc # "crashed"

\* C10 (states): glfwWindowShouldClose is called once per iteration, before
\* that iteration's poll; every iteration that has started has rendered all
\* its pixels and presented by the time the condition is tested again; once
\* the close request has been polled, only the frame of that poll is
\* completed; main returns 0.
C10_Frames ==
  /\ pc = "pollEvents" =>
       N("glfwWindowShouldClose") = frame + 1 /\ N("glfwPollEvents") = frame
  /\ pc = "beginFrame" =>
       N("glfwWindowShouldClose") = frame + 1
       /\ N("glfwPollEvents") = frame + 1
  /\ InFrameBody =>
       N("glfwWindowShouldClose") = frame /\ N("glfwPollEvents") = frame
  /\ pc = "loopTest" =>
       /\ N("glfwWindowShouldClose") = frame
       /\ N("glfwPollEvents") = frame
       /\ N("glDrawPixels") = frame
       /\ N("glfwSwapBuffers") = frame
       /\ N("rtcIntersect") = frame * width * height
       /\ \A k \in DOMAIN stamp : stamp[k] = frame
  /\ ~InLoop /\ N("glfwWindowShouldClose") > 0 =>
       /\ N("glfwWindowShouldClose") = frame + 1
       /\ N("glDrawPixels") = frame
  /\ shouldClose => (closeAt >= 0 /\ frame <= closeAt + 1)
  /\ (shouldClose /\ ~InLoop) => frame = closeAt + 1
  /\ pc = "done" => exitCode = <<0>>

\* C10: the close condition is tested once per frame, before the poll; a
\* started frame always renders and presents, also when the close request
\* arrives in its poll; after that poll only that frame is completed, and
\* then main releases its resources and returns 0.
C10_CloseEndsLoop ==
  /\ [](C10_Frames)
  /\ (shouldClose ~> (pc = "done" /\ exitCode = <<0>> /\
                      \A f \in Releases : N(f) = 1))

C10_Witness ==
  /\ pc = "done"
  /\ shouldClose /\ closeAt = 2 /\ frame = 3
  /\ N("glDrawPixels") = 3 /\ width = 2 /\ height = 2

====
